---- MODULE Spec2Model ----
(***************************************************************************)
(* A model of the local memory store of code-context-pro-memory:           *)
(* MemoryEngine (src/src/memory/MemoryEngine.ts) over its SQLite store,    *)
(* the CLI commands that drive it (src/src/cli.ts) and the relevance       *)
(* ranking its documentation describes (src/unnamed/part_000).             *)
(*                                                                         *)
(* Text is a sequence of character codes (Unicode code points), so that    *)
(* LIKE, case folding, tokenising and the ISO form of a Date are computed  *)
(* and not assumed.  A Date is a day number in 0..9999; its ISO string is  *)
(* modelled by one zero-padded four-digit field, the shape of every field  *)
(* of toISOString() for the years 0000..9999.                              *)
(***************************************************************************)
EXTENDS Integers, Sequences, FiniteSets, TLC

VARIABLES
    fs,      \* per project path: the .codecontext directory and its store
    db,      \* this.db of the engine that ran the last operation
    nextId,  \* source of fresh uuidv4 values
    last,    \* the last operation: its arguments and what it returned
    procs,   \* invocations in flight: where each is in its handler, what it holds
    cloud    \* the licensing backend: its Firestore documents and Stripe's events

vars == <<fs, db, nextId, last, procs, cloud>>

(***************************************************************************)
(* Bounds of the model.                                                    *)
(***************************************************************************)
MaxActs == 4        \* activity ids handed out per store (lifecycle runs)
MaxMemories == 3    \* memories per store (search runs)
BulkExtra == 1      \* memories stored beyond the CLI's default limit (bulk runs)
MaxScans == 3       \* successful scans and ingestions of a store (ingest runs)
MaxScanIds == 5     \* last uuid at which a scan may start (ingest runs)
MaxStatements == 5  \* statements of an ingestion a failure is injected at
MaxFaultActs == 3   \* Activity rows of the store (fault runs)
MaxInvocations == 2 \* invocations in flight on one store (concurrent runs)
MaxCommands == 2    \* commands run one after the other (gate runs)
MaxLicenses == 1    \* purchases whose license is metered (usage runs)
MaxRequests == 3    \* validateUsage requests (usage runs)
MaxMonths == 2      \* calendar months (usage runs)
EarlyAdopterLimit == 2  \* earlyAdopterLimit of public/stats, 10000 in the source
MaxDeliveries == 2  \* deliveries of one Stripe event (billing runs)
MaxShared == 3      \* Activity rows per store (shared-engine runs)

(***************************************************************************)
(* Characters.                                                             *)
(***************************************************************************)
Ch ==
    [ A   |-> 65,     \* 'A'
      a   |-> 97,     \* 'a'
      b   |-> 98,     \* 'b'
      x   |-> 120,    \* 'x'
      sp  |-> 32,     \* ' '
      pct |-> 37,     \* '%'
      us  |-> 95,     \* '_'
      EU  |-> 201,    \* U+00C9, capital E acute
      el  |-> 233,    \* U+00E9, small e acute
      d0  |-> 48,     \* '0'
      d9  |-> 57,     \* '9'
      minus |-> 45,   \* '-'
      quote |-> 34,   \* '"'
      bslash |-> 92 ] \* backslash

Min(a, b) == IF a <= b THEN a ELSE b
Max(a, b) == IF a >= b THEN a ELSE b

\* SQLite's LIKE folds case for the 26 ASCII letters only.
SqliteFold(c) == IF c >= 65 /\ c <= 90 THEN c + 32 ELSE c

\* String.prototype.toLowerCase folds ASCII and Latin-1 capitals alike.
JsLowerChar(c) ==
    IF (c >= 65 /\ c <= 90) \/ (c >= 192 /\ c <= 222 /\ c # 215) THEN c + 32 ELSE c

JsToLowerCase(s) == [i \in 1..Len(s) |-> JsLowerChar(s[i])]

\* String.prototype.includes
RECURSIVE Includes(_, _)
Includes(s, sub) ==
    IF Len(sub) > Len(s) THEN FALSE
    ELSE IF SubSeq(s, 1, Len(sub)) = sub THEN TRUE
    ELSE Includes(Tail(s), sub)

\* SQLite's  text LIKE pattern : '%' any run, '_' any one character, no escape.
LikeAny(text, pat) == TRUE

RECURSIVE Like(_, _)
Like(text, pat) ==
    IF pat = <<>> THEN text = <<>>
    ELSE IF Head(pat) = Ch.pct
         THEN Like(text, Tail(pat)) \/ (text # <<>> /\ Like(Tail(text), pat))
    ELSE IF text = <<>> THEN FALSE
    ELSE /\ (Head(pat) = Ch.us \/ SqliteFold(Head(pat)) = SqliteFold(Head(text)))
         /\ Like(Tail(text), Tail(pat))

\* A nullable column: NULL LIKE pattern is NULL, which WHERE treats as false.
\* The engine stores an absent or empty context as NULL (memory.context || null).
NullableLike(text, pat) == text # <<>> /\ Like(text, pat)

\* SQLite's BINARY collation on TEXT: memcmp, then the shorter string first.
RECURSIVE TextLeq(_, _)
TextLeq(x, y) ==
    IF x = <<>> THEN TRUE
    ELSE IF y = <<>> THEN FALSE
    ELSE IF Head(x) # Head(y) THEN Head(x) < Head(y)
    ELSE TextLeq(Tail(x), Tail(y))

(***************************************************************************)
(* Dates.                                                                  *)
(***************************************************************************)
Digit(n) == Ch.d0 + n

\* Date.prototype.toISOString: fixed-width, zero-padded decimal fields.
IsoUnpadded(t) ==
    IF t < 10 THEN <<Digit(t)>>
    ELSE IF t < 100 THEN <<Digit(t \div 10), Digit(t % 10)>>
    ELSE IF t < 1000 THEN <<Digit(t \div 100), Digit((t \div 10) % 10), Digit(t % 10)>>
    ELSE <<Digit(t \div 1000), Digit((t \div 100) % 10), Digit((t \div 10) % 10), Digit(t % 10)>>

ToISOString(t) ==
    <<Digit(t \div 1000), Digit((t \div 100) % 10), Digit((t \div 10) % 10), Digit(t % 10)>>

\* new Date(isoString)
RECURSIVE ParseDate(_)
ParseDate(s) ==
    IF s = <<>> THEN 0 ELSE ParseDate(SubSeq(s, 1, Len(s) - 1)) * 10 + (s[Len(s)] - Ch.d0)

(***************************************************************************)
(* The store of one project path: the .codecontext directory, memory.db    *)
(* with its five tables, and the config.json sidecar.                      *)
(***************************************************************************)
Paths == {"A", "B"}

NoDb == [path |-> "", open |-> FALSE]

EmptyStore ==
    [ dir        |-> FALSE,   \* .codecontext exists
      dbFile     |-> FALSE,   \* .codecontext/memory.db exists
      schema     |-> FALSE,   \* the tables exist
      projects   |-> <<>>,    \* rows [id, path, total_files]
      files      |-> <<>>,    \* rows [path, lines] in rowid order, PRIMARY KEY path
      patterns   |-> <<>>,    \* rows [id, frequency] in rowid order, PRIMARY KEY id
      memories   |-> <<>>,    \* rows in rowid order
      activities |-> <<>>,    \* rows [id, type] in rowid order
      actSeq     |-> 0,       \* sqlite_sequence of activities (AUTOINCREMENT)
      config     |-> 0 ]      \* projectId in config.json, 0 when there is no file

NoMemory == [type |-> "", content |-> <<>>, context |-> <<>>, timestamp |-> 0]

NoAnalysis == [files |-> <<>>, patterns |-> <<>>, totalFiles |-> 0]

\* The backend before any request: no license, no Stripe session, and no
\* public/stats document until initializeDatabase writes one.
NoCloud ==
    [ month    |-> 1,      \* the calendar month of new Date()
      stats    |-> <<>>,   \* <<public/stats>> once it exists
      licenses |-> <<>>,   \* the documents of the licenses collection
      sessions |-> <<>> ]  \* Stripe's checkout sessions

NoLast ==
    [ op     |-> "none",
      path   |-> "",
      force  |-> FALSE,
      mem    |-> NoMemory,
      query  |-> <<>>,
      type   |-> "",
      since  |-> <<>>,
      limit  |-> <<>>,
      option |-> <<>>,    \* the recall command's --limit option
      result |-> "none",
      rows   |-> <<>>,
      id     |-> 0,
      analysis |-> NoAnalysis,  \* the batch storeProjectAnalysis was given
      scanned  |-> FALSE,       \* the batch came from scanProject (the scan command)
      again    |-> FALSE,       \* the call before was the same, and succeeded
      failAt   |-> 0,           \* the statement of the call that failed, 0 for none
      reported |-> <<>>,        \* <<n>> when the error carries a count of records
      status |-> <<>>,    \* <<ProjectStatus>> when getProjectStatus returned one
      export |-> <<>>,    \* the memories of the JSON text exportMemory returned
      now    |-> 0,       \* Date.now() of a ranking, in days
      scores |-> <<>> ]   \* per ranked memory: its relevance and its recency term

Init ==
    /\ fs = [p \in Paths |-> EmptyStore]
    /\ db = NoDb
    /\ nextId = 1
    /\ last = NoLast
    /\ procs = <<>>
    /\ cloud = NoCloud

(***************************************************************************)
(* MemoryEngine.                                                           *)
(***************************************************************************)

\* connectDatabase: a handle already held is kept, whatever path it was opened
\* on; otherwise sqlite3 opens (and creates) memory.db, which needs the directory.
\* this.db is assigned before the open completes, so it stays set on failure.
ConnectDatabase(h, p, F) ==
    IF h # NoDb THEN [h |-> h, fs |-> F, ok |-> TRUE]
    ELSE IF F[p].dir
         THEN [h |-> [path |-> p, open |-> TRUE], fs |-> [F EXCEPT ![p].dbFile = TRUE], ok |-> TRUE]
    ELSE [h |-> [path |-> p, open |-> FALSE], fs |-> F, ok |-> FALSE]

\* logActivity: INSERT INTO activities; the id is AUTOINCREMENT.
LogActivityNewestOnly(s, type) ==
    [s EXCEPT !.activities = <<[id |-> s.actSeq + 1, type |-> type]>>,
              !.actSeq = @ + 1]

LogActivity(s, type) ==
    [s EXCEPT !.activities = Append(@, [id |-> s.actSeq + 1, type |-> type]),
              !.actSeq = @ + 1]

\* What an operation reports: its outcome in the spec's error taxonomy.
Outcome(connected, done) ==
    IF ~connected THEN "StoreUnavailable" ELSE IF done THEN "ok" ELSE "StorageError"

\* initProject, lines 53-56: the already-initialized test.
AlreadyInitializedUnchecked(force, dbExists) == FALSE

AlreadyInitialized(force, dbExists) == ~force /\ dbExists

\* initDatabase: every statement of the schema is CREATE ... IF NOT EXISTS.
InitDatabase(s) == [s EXCEPT !.schema = TRUE]

\* INSERT INTO projects: path is UNIQUE.
ProjectPathTaken(s, p) == \E i \in DOMAIN s.projects : s.projects[i].path = p

\* initProject.  (The .gitignore entry it appends lies outside the store.)
\* failAt is the step that fails, or before which the process is stopped: 1 the
\* open of memory.db, 2 the schema, 3 INSERT INTO projects, 4 the write of
\* config.json, 5 the Activity; 0 for none.  Nothing done before it is undone.
InitProject(h, p, force, failAt) ==
    LET F1 == [fs EXCEPT ![p].dir = TRUE]
        rec == [NoLast EXCEPT !.op = "init", !.path = p, !.force = force]
    IN  IF AlreadyInitialized(force, F1[p].dbFile)
        THEN /\ failAt = 0
             /\ fs' = F1
             /\ db' = h
             /\ UNCHANGED <<procs, cloud>>
             /\ nextId' = nextId
             /\ last' = [rec EXCEPT !.result = "AlreadyInitialized"]
        ELSE LET c == IF failAt = 1
                      THEN [h |-> [path |-> p, open |-> FALSE], fs |-> F1, ok |-> FALSE]
                      ELSE ConnectDatabase(h, p, F1)
                 t == c.h.path
                 canExec == c.ok /\ c.h.open /\ failAt # 2
                 F2 == IF canExec THEN [c.fs EXCEPT ![t] = InitDatabase(@)] ELSE c.fs
                 inserted == canExec /\ failAt # 3 /\ ~ProjectPathTaken(F2[t], p)
                 F3 == [F2 EXCEPT ![t].projects =
                           Append(@, [id |-> nextId, path |-> p, total_files |-> 0])]
                 written == inserted /\ failAt # 4
                 F4 == [F3 EXCEPT ![p].config = nextId]
                 done == written /\ failAt # 5
                 F5 == [F4 EXCEPT ![t] = LogActivity(@, "init")]
             IN  /\ failAt \in 0..5
                 /\ failAt = 1 => h = NoDb
                 /\ fs' = IF done THEN F5 ELSE IF written THEN F4
                          ELSE IF inserted THEN F3 ELSE F2
                 /\ db' = c.h
                 /\ UNCHANGED <<procs, cloud>>
                 /\ nextId' = IF inserted THEN nextId + 1 ELSE nextId
                 /\ last' = [rec EXCEPT !.result = Outcome(c.ok, done),
                                        !.failAt = failAt,
                                        !.id = IF done THEN nextId ELSE 0]

\* The row storeMemory inserts under the uuid it returns; memory.context || null
\* stores an absent or empty context as NULL, written <<>>.
MemoryRowOtherId(id, m) ==
    [ id         |-> id + 1,
      type       |-> m.type,
      content    |-> m.content,
      context    |-> m.context,
      created_at |-> ToISOString(m.timestamp) ]

MemoryRow(id, m) ==
    [ id         |-> id,
      type       |-> m.type,
      content    |-> m.content,
      context    |-> m.context,
      created_at |-> ToISOString(m.timestamp) ]

\* memories.id is the PRIMARY KEY: INSERT INTO fails on an id already there.
MemoryIdTaken(s, id) == \E i \in DOMAIN s.memories : s.memories[i].id = id

\* storeMemory: INSERT INTO memories, then logActivity, each committed on its
\* own.  failAt is the statement sqlite rejects (1 or 2), 0 for none.
StoreMemory(h, p, m, failAt) ==
    LET c == ConnectDatabase(h, p, fs)
        t == c.h.path
        id == nextId
        row == MemoryRow(id, m)
        inserted == /\ c.ok /\ c.h.open /\ c.fs[t].schema /\ failAt # 1
                    /\ ~MemoryIdTaken(c.fs[t], row.id)
        F1 == [c.fs EXCEPT ![t].memories = Append(@, row)]
        done == inserted /\ failAt # 2
        F2 == [F1 EXCEPT ![t] = LogActivity(@, "memory")]
    IN  /\ failAt \in 0..2
        /\ fs' = IF done THEN F2 ELSE IF inserted THEN F1 ELSE c.fs
        /\ db' = c.h
        /\ UNCHANGED <<procs, cloud>>
        /\ nextId' = IF inserted THEN nextId + 1 ELSE nextId
        /\ last' = [NoLast EXCEPT !.op = "store", !.path = p, !.mem = m,
                                  !.failAt = failAt,
                                  !.result = Outcome(c.ok, done),
                                  !.id = IF done THEN id ELSE 0]

\* INSERT OR REPLACE of a batch, one row after the other, on the key `key`: the
\* row holding the key is deleted and the new row takes the next rowid.
InsertAll(table, batch, key) == table \o batch

RECURSIVE Upsert(_, _, _)
Upsert(table, batch, key) ==
    IF batch = <<>> THEN table
    ELSE LET other(r) == r[key] # Head(batch)[key]
         IN  Upsert(Append(SelectSeq(table, other), Head(batch)), Tail(batch), key)

\* UPDATE projects SET ... total_files = ? WHERE path = ?
UpdateProjectMetrics(s, p, totalFiles) ==
    [s EXCEPT !.projects =
        [i \in DOMAIN @ |-> IF @[i].path = p THEN [@[i] EXCEPT !.total_files = totalFiles]
                            ELSE @[i]]]

\* storeProjectAnalysis; `call` is the caller's part of the record of the call.
\* Its statements run one after the other, each committed on its own: one INSERT
\* OR REPLACE per file, one per pattern, the UPDATE of the project and the INSERT
\* of the Activity.  failAt is the number of the statement that sqlite rejects
\* (0: none); the rejection is thrown on, with nothing caught or counted.
StoreProjectAnalysis(call, h, p, analysis, failAt) ==
    LET c == ConnectDatabase(h, p, fs)
        t == c.h.path
        canExec == c.ok /\ c.h.open /\ c.fs[t].schema
        nf == Len(analysis.files)
        np == Len(analysis.patterns)
        ran == IF failAt = 0 THEN nf + np + 2 ELSE failAt - 1
        F1 == [c.fs EXCEPT ![t].files =
                  Upsert(@, SubSeq(analysis.files, 1, Min(ran, nf)), "path")]
        F2 == [F1 EXCEPT ![t].patterns =
                  Upsert(@, SubSeq(analysis.patterns, 1, Min(Max(ran - nf, 0), np)), "id")]
        F3 == IF ran >= nf + np + 1
              THEN [F2 EXCEPT ![t] = UpdateProjectMetrics(@, p, analysis.totalFiles)]
              ELSE F2
        F4 == IF ran >= nf + np + 2 THEN [F3 EXCEPT ![t] = LogActivity(@, "scan")] ELSE F3
        done == canExec /\ failAt = 0
    IN  /\ failAt \in 0..(nf + np + 2)
        /\ fs' = IF canExec THEN F4 ELSE c.fs
        /\ db' = c.h
        /\ UNCHANGED <<procs, cloud>>
        /\ last' = [call EXCEPT !.path = p, !.analysis = analysis,
                                !.failAt = IF canExec THEN failAt ELSE 0,
                                !.result = Outcome(c.ok, done),
                                !.reported = <<>>]

\* A direct call of storeProjectAnalysis with a batch the caller holds.
Ingest(h, p, analysis, failAt) ==
    /\ StoreProjectAnalysis(
           [NoLast EXCEPT !.op = "scan",
                          !.again = /\ last.op = "scan" /\ last.result = "ok"
                                    /\ ~last.scanned /\ last.path = p
                                    /\ last.analysis = analysis],
           h, p, analysis, failAt)
    /\ nextId' = nextId

\* ProjectScanner.scanProject on the files of a project, each [path, lines,
\* language, kind]: kind is what the path says (test, config or code).  The
\* patterns are those of extractBasicPatterns, a languages pattern per language
\* of more than one file, then the test files and the configuration files
\* patterns, each under a new uuidv4, the uuids starting at firstId.
ScanProject(project, firstId) ==
    LET count(l) == Cardinality({i \in DOMAIN project : project[i].language = l})
        ofKind(k) == Cardinality({i \in DOMAIN project : project[i].kind = k})
        firstOfCommon(f) ==
            /\ count(f.language) > 1
            /\ \A j \in DOMAIN project :
                   project[j].language = f.language =>
                       \E i \in 1..j : project[i] = f
        languages == SelectSeq(project, firstOfCommon)
        frequencies ==
            [k \in DOMAIN languages |-> count(languages[k].language)]
            \o (IF ofKind("test") > 0 THEN <<ofKind("test")>> ELSE <<>>)
            \o (IF ofKind("config") > 0 THEN <<ofKind("config")>> ELSE <<>>)
    IN  [ files      |-> [i \in DOMAIN project |->
                             [path |-> project[i].path, lines |-> project[i].lines]],
          patterns   |-> [k \in DOMAIN frequencies |->
                             [id |-> firstId + k - 1, frequency |-> frequencies[k]]],
          totalFiles |-> Len(project) ]

\* The WHERE clause searchMemories builds (lines 224-240): each filter is added
\* only when its argument is truthy.
Matches(row, query, type, since) ==
    LET pat == <<Ch.pct>> \o query \o <<Ch.pct>>
    IN  /\ (type # "" => row.type = type)
        /\ (query # <<>> => Like(row.content, pat) \/ NullableLike(row.context, pat))
        /\ (since # <<>> => TextLeq(ToISOString(since[1]), row.created_at))

\* ORDER BY created_at DESC.  Rows of equal created_at come out in descending
\* rowid, the order of a reverse scan of idx_memories_created_at.
RECURSIVE InsertByCreatedAt(_, _)
InsertByCreatedAt(sorted, r) ==
    IF sorted = <<>> THEN <<r>>
    ELSE IF TextLeq(Head(sorted).created_at, r.created_at) THEN <<r>> \o sorted
    ELSE <<Head(sorted)>> \o InsertByCreatedAt(Tail(sorted), r)

RECURSIVE OrderByCreatedAtDesc(_)
OrderByCreatedAtDesc(rows) ==
    IF rows = <<>> THEN <<>>
    ELSE InsertByCreatedAt(OrderByCreatedAtDesc(SubSeq(rows, 1, Len(rows) - 1)),
                           rows[Len(rows)])

\* if (options.limit): undefined, NaN and 0 add no LIMIT clause.  A limit is <<>>
\* (undefined or NaN) or <<n>>.  SQLite reads a negative LIMIT as no limit.
LimitOffByOne(rows, limit) ==
    IF limit # <<>> /\ limit[1] # 0 /\ limit[1] >= 0
    THEN SubSeq(rows, 1, Min(limit[1] + 1, Len(rows)))
    ELSE rows

ApplyLimitDefaultTen(rows, limit) ==
    IF limit # <<>> /\ limit[1] # 0 /\ limit[1] >= 0
    THEN SubSeq(rows, 1, Min(limit[1], Len(rows)))
    ELSE SubSeq(rows, 1, Min(10, Len(rows)))

ApplyLimit(rows, limit) ==
    IF limit # <<>> /\ limit[1] # 0 /\ limit[1] >= 0
    THEN SubSeq(rows, 1, Min(limit[1], Len(rows)))
    ELSE rows

\* results.map(row => ...), lines 251-259.
ToMemoryNoContext(row) ==
    [ id        |-> row.id,
      type      |-> row.type,
      content   |-> row.content,
      context   |-> <<>>,
      timestamp |-> ParseDate(row.created_at) ]

ToMemory(row) ==
    [ id        |-> row.id,
      type      |-> row.type,
      content   |-> row.content,
      context   |-> row.context,
      timestamp |-> ParseDate(row.created_at) ]

SelectMemories(s, query, type, since, limit) ==
    LET hit(r) == Matches(r, query, type, since)
        rows == ApplyLimit(OrderByCreatedAtDesc(SelectSeq(s.memories, hit)), limit)
    IN  [i \in 1..Len(rows) |-> ToMemory(rows[i])]

\* searchMemories; `call` is the caller's part of the record of the call.
SearchMemories(call, h, p, query, type, since, limit) ==
    LET c == ConnectDatabase(h, p, fs)
        t == c.h.path
        done == c.ok /\ c.h.open /\ c.fs[t].schema
    IN  /\ fs' = c.fs
        /\ db' = c.h
        /\ UNCHANGED <<procs, cloud>>
        /\ nextId' = nextId
        /\ last' = [call EXCEPT !.path = p, !.query = query,
                                  !.type = type, !.since = since, !.limit = limit,
                                  !.result = Outcome(c.ok, done),
                                  !.rows = IF done
                                           THEN SelectMemories(c.fs[t], query, type, since, limit)
                                           ELSE <<>>]

\* clearMemory, the DELETE statements of lines 316-319.
DeleteAllTables(s) ==
    [s EXCEPT !.memories = <<>>, !.patterns = <<>>, !.files = <<>>, !.activities = <<>>,
              !.projects = <<>>]

DeleteKeepingActivities(s) ==
    [s EXCEPT !.memories = <<>>, !.patterns = <<>>, !.files = <<>>]

DeleteTables(s) ==
    [s EXCEPT !.memories = <<>>, !.patterns = <<>>, !.files = <<>>, !.activities = <<>>]

\* clearMemory.
ClearMemory(h, p) ==
    LET c == ConnectDatabase(h, p, fs)
        t == c.h.path
        done == c.ok /\ c.h.open /\ c.fs[t].schema
        F1 == [c.fs EXCEPT ![t] = LogActivity(DeleteTables(@), "clear")]
    IN  /\ fs' = IF done THEN F1 ELSE c.fs
        /\ db' = c.h
        /\ UNCHANGED <<procs, cloud>>
        /\ nextId' = nextId
        /\ last' = [NoLast EXCEPT !.op = "clear", !.path = p,
                                  !.result = Outcome(c.ok, done)]

\* getProjectStatus, as the operation and as the call exportMemory makes of it:
\* the handle, the file system and the outcome it leaves.
GetStatus(h, p, F) ==
    IF ~F[p].dbFile
    THEN [h |-> h, fs |-> F, result |-> "NotFound", status |-> <<>>]
    ELSE LET c == ConnectDatabase(h, p, F)
             s == c.fs[c.h.path]
             recent == ApplyLimit(
                          [i \in 1..Len(s.activities) |->
                              s.activities[Len(s.activities) + 1 - i]], <<10>>)
         IN  IF ~(c.ok /\ c.h.open /\ s.schema)
             THEN [h |-> c.h, fs |-> c.fs, result |-> Outcome(c.ok, FALSE), status |-> <<>>]
             ELSE IF ~ProjectPathTaken(s, p)
             THEN [h |-> c.h, fs |-> c.fs, result |-> "NotFound", status |-> <<>>]
             ELSE [ h |-> c.h, fs |-> c.fs, result |-> "ok",
                    status |-> <<[ projectId |->
                                       s.projects[CHOOSE i \in DOMAIN s.projects :
                                                      s.projects[i].path = p].id,
                                   filesTracked |-> Len(s.files),
                                   conversations |->
                                       Cardinality({i \in DOMAIN s.memories :
                                                       s.memories[i].type = "conversation"}),
                                   patterns |-> Len(s.patterns),
                                   recentActivity |-> recent ]>> ]

GetProjectStatus(h, p) ==
    LET g == GetStatus(h, p, fs)
    IN  /\ fs' = g.fs
        /\ db' = g.h
        /\ UNCHANGED <<procs, cloud>>
        /\ nextId' = nextId
        /\ last' = [NoLast EXCEPT !.op = "status", !.path = p,
                                  !.result = g.result, !.status = g.status]

\* JSON.stringify of a string: the quote and the backslash are escaped.
JsonEscapeNone(text) == text

RECURSIVE JsonEscape(_)
JsonEscape(text) ==
    IF text = <<>> THEN <<>>
    ELSE IF Head(text) \in {Ch.quote, Ch.bslash}
         THEN <<Ch.bslash, Head(text)>> \o JsonEscape(Tail(text))
    ELSE <<Head(text)>> \o JsonEscape(Tail(text))

JsonNull == <<110, 117, 108, 108>>

JsonString(text) == <<Ch.quote>> \o JsonEscape(text) \o <<Ch.quote>>

\* JSON.stringify of one Memory of the export; a NULL context is written null
\* and the Date of timestamp by its toJSON, the ISO string.
JsonMemory(m) ==
    [ id        |-> m.id,
      type      |-> m.type,
      content   |-> JsonString(m.content),
      context   |-> IF m.context = <<>> THEN JsonNull ELSE JsonString(m.context),
      timestamp |-> JsonString(ToISOString(m.timestamp)) ]

\* exportMemory with format json.
ExportMemory(h, p) ==
    LET c == ConnectDatabase(h, p, fs)
        g == GetStatus(c.h, p, c.fs)
        done == c.ok /\ g.result = "ok"
        memories == SelectMemories(g.fs[g.h.path], <<>>, "", <<>>, <<>>)
    IN  /\ fs' = IF c.ok THEN g.fs ELSE c.fs
        /\ db' = IF c.ok THEN g.h ELSE c.h
        /\ UNCHANGED <<procs, cloud>>
        /\ nextId' = nextId
        /\ last' = [NoLast EXCEPT
                       !.op = "export", !.path = p,
                       !.result = IF c.ok THEN g.result ELSE Outcome(FALSE, FALSE),
                       !.status = IF done THEN g.status ELSE <<>>,
                       !.export = IF done
                                  THEN [i \in 1..Len(memories) |-> JsonMemory(memories[i])]
                                  ELSE <<>>]

(***************************************************************************)
(* Invocations in flight.  An invocation is one call of an operation by a  *)
(* process of its own, with a MemoryEngine of its own; its statements are   *)
(* the awaited query() calls of the operation, each committed by sqlite on *)
(* its own, and the statements of other invocations run between them.      *)
(***************************************************************************)
NoProc ==
    [ op     |-> "none",      \* the operation, or the CLI command
      cli    |-> "none",      \* the CLI the command belongs to, for a command
      pc     |-> 0,           \* 0: before connectDatabase; k: before statement k
      path   |-> "",
      mem    |-> NoMemory,
      id     |-> 0,           \* the uuidv4 storeMemory drew
      result |-> "running",   \* what the invocation returned or threw, once over
      licensed |-> FALSE,     \* of a command: a current license is installed
      quota    |-> FALSE,     \* of a command: the backend grants the operation
      called   |-> FALSE,     \* of a command: it has called the core
      exit   |-> <<>> ]       \* <<code>> once the process of a command has exited

Running(pr) == pr.result = "running"

\* The awaited statements of storeMemory (lines 201-215) and of clearMemory
\* (lines 316-321), in the order they are issued.
Statements(op) ==
    IF op = "storeMemory" THEN <<"INSERT memories", "INSERT activities">>
    ELSE <<"DELETE memories", "DELETE patterns", "DELETE files",
           "DELETE activities", "INSERT activities">>

\* The store after statement k of the invocation pr.
RunStatement(s, pr, k) ==
    IF pr.op = "storeMemory"
    THEN IF k = 1 THEN [s EXCEPT !.memories = Append(@, MemoryRow(pr.id, pr.mem))]
         ELSE LogActivity(s, "memory")
    ELSE IF k = 1 THEN [s EXCEPT !.memories = <<>>]
    ELSE IF k = 2 THEN [s EXCEPT !.patterns = <<>>]
    ELSE IF k = 3 THEN [s EXCEPT !.files = <<>>]
    ELSE IF k = 4 THEN [s EXCEPT !.activities = <<>>]
    ELSE LogActivity(s, "clear")

\* A process calls storeMemory or clearMemory on the store of p.
Begin(op, p, m) ==
    /\ procs' = Append(procs, [NoProc EXCEPT !.op = op, !.path = p, !.mem = m])
    /\ UNCHANGED <<fs, db, nextId, last, cloud>>

\* connectDatabase of invocation i, on the null handle of its new engine; then,
\* in storeMemory, const id = uuidv4().
Connect(i) ==
    LET pr == procs[i]
        c == ConnectDatabase(NoDb, pr.path, fs)
        draws == c.ok /\ pr.op = "storeMemory"
    IN  /\ Running(pr) /\ pr.pc = 0
        /\ fs' = c.fs
        /\ nextId' = IF draws THEN nextId + 1 ELSE nextId
        /\ procs' = [procs EXCEPT ![i] =
               IF c.ok THEN [pr EXCEPT !.pc = 1, !.id = IF draws THEN nextId ELSE 0]
               ELSE [pr EXCEPT !.result = "StoreUnavailable"]]
        /\ UNCHANGED <<db, last, cloud>>

\* Another invocation holds a connection to the same memory.db.
Contended(i) ==
    \E j \in DOMAIN procs :
        j # i /\ Running(procs[j]) /\ procs[j].pc > 0 /\ procs[j].path = procs[i].path

\* The next statement of invocation i.  sqlite rejects it when the tables are
\* missing, or with SQLITE_BUSY (busy) while another connection holds the lock;
\* query() rejects with that error and the operation throws it on.  After the
\* last statement the operation returns.
Step(i, busy) ==
    LET pr == procs[i]
        n == Len(Statements(pr.op))
        rejected == busy \/ ~fs[pr.path].schema
    IN  /\ Running(pr) /\ pr.pc \in 1..n
        /\ busy => Contended(i)
        /\ fs' = IF rejected THEN fs
                 ELSE [fs EXCEPT ![pr.path] = RunStatement(@, pr, pr.pc)]
        /\ procs' = [procs EXCEPT ![i] =
               IF rejected THEN [pr EXCEPT !.result = "StorageError"]
               ELSE IF pr.pc = n THEN [pr EXCEPT !.pc = n + 1, !.result = "ok"]
               ELSE [pr EXCEPT !.pc = pr.pc + 1]]
        /\ UNCHANGED <<db, nextId, last, cloud>>

(***************************************************************************)
(* The CLI (src/src/cli.ts).  Every command constructs a new MemoryEngine  *)
(* and runs on process.cwd().                                              *)
(***************************************************************************)
IsDigit(c) == c >= Ch.d0 /\ c <= Ch.d9

RECURSIVE DigitsValue(_, _)
DigitsValue(s, acc) ==
    IF s = <<>> \/ ~IsDigit(Head(s)) THEN acc
    ELSE DigitsValue(Tail(s), acc * 10 + (Head(s) - Ch.d0))

\* parseInt: leading blanks, an optional sign, then the leading run of digits;
\* NaN (written <<>>) when there is none.
RECURSIVE ParseInt(_)
ParseInt(s) ==
    IF s = <<>> THEN <<>>
    ELSE IF Head(s) = Ch.sp THEN ParseInt(Tail(s))
    ELSE IF Head(s) = Ch.minus
         THEN IF Len(s) > 1 /\ IsDigit(s[2]) THEN <<0 - DigitsValue(Tail(s), 0)>> ELSE <<>>
    ELSE IF IsDigit(Head(s)) THEN <<DigitsValue(s, 0)>>
    ELSE <<>>

\* The scan command: scanProject, then storeProjectAnalysis of what it returned.
ScanCommand(p, project, failAt) ==
    LET analysis == ScanProject(project, nextId)
    IN  /\ StoreProjectAnalysis(
               [NoLast EXCEPT !.op = "scan", !.scanned = TRUE,
                              !.again = /\ last.op = "scan" /\ last.result = "ok"
                                        /\ last.scanned /\ last.path = p],
               NoDb, p, analysis, failAt)
        /\ nextId' = nextId + Len(analysis.patterns)

\* .option('-l, --limit <limit>', ..., '10')
DefaultLimitOption == <<Ch.d0 + 1, Ch.d0>>

\* The recall command: the limit it passes is parseInt of the --limit option.
Recall(p, query, type, limitOption) ==
    SearchMemories([NoLast EXCEPT !.op = "recall", !.option = limitOption],
                   NoDb, p, query, type, <<>>, ParseInt(limitOption))

\* A direct call of the engine's searchMemories (the library API, exportMemory).
Search(h, p, query, type, since, limit) ==
    SearchMemories([NoLast EXCEPT !.op = "search"], h, p, query, type, since, limit)

(***************************************************************************)
(* The ranking of search results the repository documents                  *)
(* (src/unnamed/part_000, "Context-Aware Ranking").  Scores are kept in    *)
(* tenths, so that the recency term 5 - daysSince * 0.1 stays an integer.  *)
(***************************************************************************)
TypeScore(type) ==
    CASE type = "decision" -> 3
      [] type = "pattern" -> 2
      [] type = "conversation" -> 1
      [] type = "issue" -> 2
      [] OTHER -> 0

\* The recency boost Math.max(0, 5 - daysSince * 0.1), times ten.
RecencyUnclamped(memory, now) == 50 - (now - memory.timestamp)

RecencyBoost(memory, now) == Max(0, 50 - (now - memory.timestamp))

\* calculateRelevance(query, memory), times ten, at Date.now() = now.
CalculateRelevance(query, memory, now) ==
    (IF Includes(JsToLowerCase(memory.content), JsToLowerCase(query)) THEN 100 ELSE 0)
    + RecencyBoost(memory, now)
    + 10 * TypeScore(memory.type)

\* calculateRelevance applied to two memories that differ in creation time only.
Rank(query, type, content, older, newer, now) ==
    LET ms == <<[id |-> 1, type |-> type, content |-> content, context |-> <<>>,
                 timestamp |-> older],
                [id |-> 2, type |-> type, content |-> content, context |-> <<>>,
                 timestamp |-> newer]>>
    IN  /\ older < newer
        /\ last' = [NoLast EXCEPT
                       !.op = "rank", !.query = query, !.rows = ms, !.now = now,
                       !.scores = [i \in 1..2 |->
                                      [ relevance |-> CalculateRelevance(query, ms[i], now),
                                        recency   |-> RecencyBoost(ms[i], now) ]]]
        /\ UNCHANGED <<fs, db, nextId, procs, cloud>>

(***************************************************************************)
(* Inputs.                                                                 *)
(***************************************************************************)
Cwd == "A"

Text ==
    [ a  |-> <<Ch.a>>,
      ab |-> <<Ch.a, Ch.sp, Ch.b>>,
      ba |-> <<Ch.b, Ch.sp, Ch.a>>,
      el |-> <<Ch.el>>,
      EU |-> <<Ch.EU>>,
      x  |-> <<Ch.x>>,
      two |-> <<Ch.d0 + 2>>,
      quoted |-> <<Ch.quote, Ch.a, Ch.bslash, Ch.quote>> ]

Mem(type, content, context, timestamp) ==
    [type |-> type, content |-> content, context |-> context, timestamp |-> timestamp]

\* Scanner output: the files and patterns of a ProjectAnalysis and metrics.totalFiles.
FirstScan ==
    [ files      |-> <<[path |-> "f1", lines |-> 1]>>,
      patterns   |-> <<[id |-> 0, frequency |-> 1]>>,   \* an id of the caller's
      totalFiles |-> 1 ]

Analyses ==
    { FirstScan,
      [ files      |-> <<[path |-> "f1", lines |-> 2], [path |-> "f2", lines |-> 1]>>,
        patterns   |-> <<>>,
        totalFiles |-> 2 ] }

\* The project the scan command finds on disk, the same at every scan.
ProjectOnDisk ==
    << [path |-> "f1", lines |-> 1, language |-> "ts", kind |-> "code"],
       [path |-> "f2", lines |-> 1, language |-> "ts", kind |-> "test"] >>

LifeMemories ==
    { Mem("decision", Text.a, <<>>, 100), Mem("note", Text.ba, Text.a, 105),
      Mem("note", <<>>, <<>>, 105) }

SearchedMemories ==
    { Mem("decision", Text.ab, <<>>, 95),
      Mem("note", Text.ba, <<>>, 105),
      Mem("note", Text.el, Text.a, 100) }

BulkMemories ==
    { Mem("decision", Text.a, <<>>, 100), Mem("note", Text.quoted, Text.a, 105) }

Queries == {<<>>, Text.a, Text.ab, Text.EU}
Types == {"", "note"}
Sinces == {<<>>, <<100>>}
Limits == {<<>>, <<2>>}
LimitOptions == {DefaultLimitOption, Text.two, Text.x}

DefaultLimit == 10

\* What each project stores through the shared engine.
SharedMemory ==
    [p \in Paths |-> IF p = "A" THEN Mem("decision", Text.a, <<>>, 100)
                     ELSE Mem("note", Text.x, <<>>, 105)]

\* Room for one more Activity id in the store of p.
CanLog(p, cap) == fs[p].actSeq < cap

(***************************************************************************)
(* The gated commands of the three command lines of the repository:        *)
(* src/src/cli.ts, src/src/cli-memory-only.ts and the CLI of               *)
(* src/unnamed/part_003.  A command runs in a process of its own; its      *)
(* awaited calls are its steps.                                            *)
(***************************************************************************)
CLIs == {"cli", "cli-memory-only", "part_003"}

GatedOperations == {"remember", "recall", "scan", "export"}

\* The commands each CLI registers (part_003 has no recall and no export).
HasCommand(cli, op) == cli = "part_003" => op \in {"remember", "scan"}

\* What a command awaits, in order, up to its call of the core:
\* cli.ts lines 98-113, cli-memory-only.ts lines 215-242, part_003 lines 295-313.
CommandSteps(cli, op) ==
    IF cli = "cli" THEN <<"core">>
    ELSE <<"requireLicense">>
         \o (IF op = "remember" THEN <<"validateFeatureAccess">> ELSE <<>>)
         \o (IF cli = "cli-memory-only" THEN <<"validateUsage">> ELSE <<>>)
         \o <<"core">>

IsCommand(pr) == pr.op \in GatedOperations

Exited(pr) == pr.exit # <<>>

\* A command is launched.  licensed: licenseService.getCurrentLicense() finds a
\* license that has not expired; quota: the validateUsage function of the
\* backend answers success for the operation.
Launch(cli, op, licensed, quota) ==
    /\ HasCommand(cli, op)
    /\ \A i \in DOMAIN procs : Exited(procs[i])
    /\ procs' = Append(procs, [NoProc EXCEPT !.op = op, !.cli = cli, !.pc = 1,
                                             !.path = Cwd, !.licensed = licensed,
                                             !.quota = quota])
    /\ UNCHANGED <<fs, db, nextId, last, cloud>>

\* requireLicense and validateFeatureAccess end the process with exit(1) (the
\* latter by throwing into the command's catch) when there is no license;
\* the catch around validateUsage does when the backend refuses.
Check(i) ==
    LET pr == procs[i]
        steps == CommandSteps(pr.cli, pr.op)
        passes == IF steps[pr.pc] = "validateUsage" THEN pr.quota ELSE pr.licensed
    IN  /\ IsCommand(pr) /\ ~Exited(pr)
        /\ steps[pr.pc] # "core"
        /\ procs' = [procs EXCEPT ![i] =
               IF passes THEN [pr EXCEPT !.pc = pr.pc + 1]
               ELSE [pr EXCEPT !.result = "denied", !.exit = <<1>>]]
        /\ UNCHANGED <<fs, db, nextId, last, cloud>>

\* const memory = new MemoryEngine(); await memory.<operation>(process.cwd(), ...)
CallCore(i) ==
    LET pr == procs[i]
    IN  /\ IsCommand(pr) /\ ~Exited(pr) /\ ~pr.called
        /\ CommandSteps(pr.cli, pr.op)[pr.pc] = "core"
        /\ procs' = [procs EXCEPT ![i].called = TRUE]
        /\ last' = [NoLast EXCEPT !.op = "call"]
        /\ UNCHANGED <<fs, db, nextId, cloud>>

\* The operation of the core the command called.
Core(i) ==
    LET pr == procs[i]
    IN  /\ IsCommand(pr) /\ ~Exited(pr) /\ pr.called /\ last.op = "call"
        /\ \/ pr.op = "remember" /\ StoreMemory(NoDb, Cwd, Mem("decision", Text.a, <<>>, 100), 0)
           \/ pr.op = "recall" /\ Recall(Cwd, <<>>, "", DefaultLimitOption)
           \/ pr.op = "scan" /\ ScanCommand(Cwd, ProjectOnDisk, 0)
           \/ pr.op = "export" /\ ExportMemory(NoDb, Cwd)

\* The command ends: normally when the core returned, through its catch and
\* process.exit(1) when the core threw.
Finish(i) ==
    LET pr == procs[i]
    IN  /\ IsCommand(pr) /\ ~Exited(pr) /\ pr.called /\ last.op # "call"
        /\ procs' = [procs EXCEPT ![i].result = last.result,
                                  ![i].exit = IF last.result = "ok" THEN <<0>> ELSE <<1>>]
        /\ UNCHANGED <<fs, db, nextId, last, cloud>>

(***************************************************************************)
(* The licensing backend (src/firebase-setup/functions/src/index.ts): the  *)
(* Firestore documents licenses/<id> and public/stats, Stripe's checkout   *)
(* sessions, and the HTTP functions over them.  No function runs in a      *)
(* Firestore transaction; each get(), set() and update() takes effect on   *)
(* its own.                                                                *)
(***************************************************************************)
\* usage.limits of a new license, lines 1215-1221.
UsageLimits(tier) ==
    IF tier = "test"
    THEN [monthly |-> 10, remember |-> 10, recall |-> 20, scan |-> 5, export |-> 2]
    ELSE IF tier = "early_adopter"
    THEN [monthly |-> 1000, remember |-> 1000, recall |-> 2000, scan |-> 100, export |-> 50]
    ELSE [monthly |-> 500, remember |-> 500, recall |-> 1000, scan |-> 50, export |-> 20]

\* statsDoc.data() || {earlyAdoptersSold: 0, earlyAdopterLimit: 10000}
StatsOrDefault(c) ==
    IF c.stats = <<>> THEN [earlyAdoptersSold |-> 0, earlyAdopterLimit |-> EarlyAdopterLimit]
    ELSE c.stats[1]

\* initializeDatabase: public/stats is set to its defaults.
InitializeDatabase ==
    /\ cloud' = [cloud EXCEPT !.stats = <<[earlyAdoptersSold |-> 0,
                                           earlyAdopterLimit |-> EarlyAdopterLimit]>>]
    /\ last' = [NoLast EXCEPT !.op = "initializeDatabase", !.result = "200"]
    /\ UNCHANGED <<fs, db, nextId, procs>>

\* createCheckout: the early adopter tier is refused when none remain by the
\* stats read; otherwise a Stripe checkout session carrying the email and the
\* tier is created.
CreateCheckout(email, tier) ==
    LET stats == StatsOrDefault(cloud)
        remaining == Max(0, stats.earlyAdopterLimit - stats.earlyAdoptersSold)
        soldOut == tier = "early_adopter" /\ remaining <= 0
        session == [id |-> Len(cloud.sessions) + 1, email |-> email, tier |-> tier,
                    completed |-> FALSE, deliveries |-> 0]
    IN  /\ cloud' = IF soldOut THEN cloud
                    ELSE [cloud EXCEPT !.sessions = Append(@, session)]
        /\ last' = [NoLast EXCEPT !.op = "createCheckout",
                                  !.result = IF soldOut THEN "400" ELSE "200"]
        /\ UNCHANGED <<fs, db, nextId, procs>>

\* The customer pays: Stripe completes the session and has the event
\* checkout.session.completed to deliver.
CompleteCheckout(s) ==
    /\ ~cloud.sessions[s].completed
    /\ cloud' = [cloud EXCEPT !.sessions[s].completed = TRUE]
    /\ UNCHANGED <<fs, db, nextId, last, procs>>

\* The license document handleSuccessfulPayment writes for a session.
LicenseData(id, session, month) ==
    [ id |-> id,
      email |-> session.email,
      tier |-> session.tier,
      stripeSubscriptionId |-> session.id,   \* the subscription of the session
      active |-> TRUE,
      usage |-> [currentMonth |-> month, operations |-> 0,
                 limits |-> UsageLimits(session.tier)] ]

\* stripeWebhook on a delivery of the checkout.session.completed event of
\* session s: handleSuccessfulPayment sets a license under a new document id,
\* then, for the early adopter tier, update()s public/stats, which throws when
\* the document does not exist; the catch answers 500.
StripeWebhook(s) ==
    LET session == cloud.sessions[s]
        license == LicenseData(nextId, session, cloud.month)
        counts == session.tier = "early_adopter"
        thrown == counts /\ cloud.stats = <<>>
    IN  /\ session.completed
        /\ cloud' = [cloud EXCEPT
               !.licenses = Append(@, license),
               !.stats = IF counts /\ ~thrown
                         THEN <<[@[1] EXCEPT !.earlyAdoptersSold = @ + 1]>> ELSE @,
               !.sessions[s].deliveries = @ + 1]
        /\ nextId' = nextId + 1
        /\ last' = [NoLast EXCEPT !.op = "stripeWebhook", !.id = license.id,
                                  !.result = IF thrown THEN "500" ELSE "200"]
        /\ UNCHANGED <<fs, db, procs>>

\* The calendar month of new Date() moves on.
NewMonth ==
    /\ cloud' = [cloud EXCEPT !.month = @ + 1]
    /\ UNCHANGED <<fs, db, nextId, last, procs>>

\* A validateUsage request in flight.
NoRequest ==
    [ fn |-> "validateUsage",
      pc |-> "get",             \* the await the handler is at: get, reset, increment
      licenseKey |-> 0,
      operation |-> "",
      email |-> "",
      currentMonth |-> 0,
      currentOperations |-> 0,
      operationLimit |-> 0,
      status |-> 0,             \* the HTTP status answered, 0 while in flight
      remaining |-> 0 ]

HasLicense(c, key) == \E k \in DOMAIN c.licenses : c.licenses[k].id = key

LicenseIndex(c, key) == CHOOSE k \in DOMAIN c.licenses : c.licenses[k].id = key

\* A POST of {licenseKey, operation, email} arrives.
ValidateUsageRequest(key, operation, email) ==
    /\ procs' = Append(procs, [NoRequest EXCEPT !.licenseKey = key,
                                                !.operation = operation, !.email = email])
    /\ UNCHANGED <<fs, db, nextId, last, cloud>>

\* limits[operation] || limits.monthly || 100
OperationLimit(limits, operation) ==
    IF operation \in DOMAIN limits /\ limits[operation] # 0 THEN limits[operation]
    ELSE IF limits.monthly # 0 THEN limits.monthly
    ELSE 100

\* After the limit is known: 429 at or over it, otherwise on to the increment.
CheckLimit(r) ==
    IF r.currentOperations >= r.operationLimit THEN [r EXCEPT !.pc = "done", !.status = 429]
    ELSE [r EXCEPT !.pc = "increment"]

\* validateUsage up to its first update: the license is read, its email and
\* active flag checked; a usage of another month goes on to the reset, else the
\* operations read are compared with the limit.
ValidateUsageGet(i) ==
    LET r == procs[i]
        license == cloud.licenses[LicenseIndex(cloud, r.licenseKey)]
        seen == [r EXCEPT !.currentMonth = cloud.month,
                          !.currentOperations = license.usage.operations,
                          !.operationLimit = OperationLimit(license.usage.limits, r.operation)]
    IN  /\ r.pc = "get"
        /\ procs' = [procs EXCEPT ![i] =
               IF ~HasLicense(cloud, r.licenseKey) THEN [r EXCEPT !.pc = "done", !.status = 404]
               ELSE IF license.email # r.email \/ ~license.active
                    THEN [r EXCEPT !.pc = "done", !.status = 403]
               ELSE IF license.usage.currentMonth # cloud.month
                    THEN [seen EXCEPT !.pc = "reset"]
               ELSE CheckLimit(seen)]
        /\ UNCHANGED <<fs, db, nextId, last, cloud>>

\* The reset update of a new month takes effect; licenseUsage.operations = 0.
ValidateUsageReset(i) ==
    LET r == procs[i]
        k == LicenseIndex(cloud, r.licenseKey)
    IN  /\ r.pc = "reset"
        /\ cloud' = [cloud EXCEPT !.licenses[k].usage.currentMonth = r.currentMonth,
                                  !.licenses[k].usage.operations = 0]
        /\ procs' = [procs EXCEPT ![i] = CheckLimit([r EXCEPT !.currentOperations = 0])]
        /\ UNCHANGED <<fs, db, nextId, last>>

\* The update with FieldValue.increment(1) takes effect and success is answered.
ValidateUsageIncrement(i) ==
    LET r == procs[i]
        k == LicenseIndex(cloud, r.licenseKey)
    IN  /\ r.pc = "increment"
        /\ cloud' = [cloud EXCEPT !.licenses[k].usage.operations = @ + 1]
        /\ procs' = [procs EXCEPT ![i] =
               [r EXCEPT !.pc = "done", !.status = 200,
                         !.remaining = r.operationLimit - r.currentOperations - 1]]
        /\ UNCHANGED <<fs, db, nextId, last>>

(***************************************************************************)
(* Spec: the life cycle of one project store, driven as the CLI drives it. *)
(***************************************************************************)
Next ==
    \/ \E force \in BOOLEAN : CanLog(Cwd, MaxActs) /\ InitProject(NoDb, Cwd, force, 0)
    \/ \E m \in LifeMemories : CanLog(Cwd, MaxActs) /\ StoreMemory(NoDb, Cwd, m, 0)
    \/ \E a \in Analyses : CanLog(Cwd, MaxActs) /\ Ingest(NoDb, Cwd, a, 0)
    \/ CanLog(Cwd, MaxActs) /\ ClearMemory(NoDb, Cwd)
    \/ \E q \in {<<>>, Text.a}, l \in {<<>>, <<1>>} : Search(NoDb, Cwd, q, "", <<>>, l)
    \/ \E o \in LimitOptions : Recall(Cwd, <<>>, "", o)
    \/ GetProjectStatus(NoDb, Cwd)
    \/ ExportMemory(NoDb, Cwd)

Spec == Init /\ [][Next]_vars

(***************************************************************************)
(* SpecSearch: searches with every combination of query and filters.       *)
(***************************************************************************)
NextSearch ==
    \/ \E force \in BOOLEAN : CanLog(Cwd, MaxMemories + 1) /\ InitProject(NoDb, Cwd, force, 0)
    \/ \E m \in SearchedMemories : CanLog(Cwd, MaxMemories + 1) /\ StoreMemory(NoDb, Cwd, m, 0)
    \/ CanLog(Cwd, MaxMemories + 1) /\ Ingest(NoDb, Cwd, FirstScan, 0)
    \/ CanLog(Cwd, MaxMemories + 1) /\ ClearMemory(NoDb, Cwd)
    \/ \E q \in Queries, ty \in Types, si \in Sinces, l \in Limits :
           Search(NoDb, Cwd, q, ty, si, l)
    \/ \E q \in Queries : Recall(Cwd, q, "", DefaultLimitOption)

SpecSearch == Init /\ [][NextSearch]_vars

(***************************************************************************)
(* SpecBulk: a store filled past the recall command's default limit.       *)
(***************************************************************************)
NextBulk ==
    \/ CanLog(Cwd, DefaultLimit + BulkExtra + 1) /\ InitProject(NoDb, Cwd, FALSE, 0)
    \/ \E m \in BulkMemories :
           CanLog(Cwd, DefaultLimit + BulkExtra + 1) /\ StoreMemory(NoDb, Cwd, m, 0)
    \/ \E ty \in Types : Search(NoDb, Cwd, <<>>, ty, <<>>, <<>>)
    \/ \E o \in LimitOptions : Recall(Cwd, <<>>, "", o)

SpecBulk == Init /\ [][NextBulk]_vars

(***************************************************************************)
(* SpecExport: exports of a store filled past the recall default.          *)
(***************************************************************************)
NextExport ==
    \/ CanLog(Cwd, DefaultLimit + BulkExtra + 1) /\ InitProject(NoDb, Cwd, FALSE, 0)
    \/ \E m \in BulkMemories :
           CanLog(Cwd, DefaultLimit + BulkExtra + 1) /\ StoreMemory(NoDb, Cwd, m, 0)
    \/ ExportMemory(NoDb, Cwd)

SpecExport == Init /\ [][NextExport]_vars

(***************************************************************************)
(* SpecShared: one MemoryEngine instance serving two project paths, as the *)
(* instance VSCodeIntegration keeps in this.memory does; the handle of     *)
(* each call is the this.db the call before it left.                       *)
(***************************************************************************)
\* new MemoryEngine(): db starts as null.
NewEngine ==
    /\ db # NoDb
    /\ db' = NoDb
    /\ last' = [NoLast EXCEPT !.op = "new"]
    /\ UNCHANGED <<fs, nextId, procs, cloud>>

CanLogAll(cap) == \A p \in Paths : CanLog(p, cap)

NextShared ==
    \/ NewEngine
    \/ \E p \in Paths : CanLogAll(MaxShared) /\ InitProject(db, p, FALSE, 0)
    \/ \E p \in Paths : CanLogAll(MaxShared) /\ StoreMemory(db, p, SharedMemory[p], 0)
    \/ \E p \in Paths : Search(db, p, <<>>, "", <<>>, <<>>)
    \/ \E p \in Paths : GetProjectStatus(db, p)
    \/ \E p \in Paths : ExportMemory(db, p)

SpecShared == Init /\ [][NextShared]_vars

(***************************************************************************)
(* SpecIngest: scans and ingestions of one store, with a statement of the  *)
(* ingestion that may fail.                                                *)
(***************************************************************************)
NextIngest ==
    \/ CanLog(Cwd, MaxScans + 1) /\ InitProject(NoDb, Cwd, FALSE, 0)
    \/ \E a \in Analyses, k \in 0..MaxStatements :
           CanLog(Cwd, MaxScans + 1) /\ Ingest(NoDb, Cwd, a, k)
    \/ \E k \in 0..MaxStatements :
           /\ CanLog(Cwd, MaxScans + 1)
           /\ nextId <= MaxScanIds
           /\ ScanCommand(Cwd, ProjectOnDisk, k)
    \/ GetProjectStatus(NoDb, Cwd)

SpecIngest == Init /\ [][NextIngest]_vars

(***************************************************************************)
(* SpecFaults: one store whose operations may fail, or be stopped, at any  *)
(* of their steps.                                                         *)
(***************************************************************************)
CanFault == CanLog(Cwd, MaxFaultActs) /\ nextId <= MaxFaultActs + 1

NextFaults ==
    \/ \E force \in BOOLEAN, k \in 0..5 : CanFault /\ InitProject(NoDb, Cwd, force, k)
    \/ \E m \in BulkMemories, k \in 0..2 : CanFault /\ StoreMemory(NoDb, Cwd, m, k)
    \/ GetProjectStatus(NoDb, Cwd)
    \/ \E q \in {<<>>, Text.a} : Search(NoDb, Cwd, q, "", <<>>, <<>>)

SpecFaults == Init /\ [][NextFaults]_vars

(***************************************************************************)
(* SpecRank: the relevance score over memories of every age, those dated   *)
(* after the time of the ranking included.                                 *)
(***************************************************************************)
RankDates == {40, 49, 50, 51, 99, 100, 101, 110}
RankNows == {100, 101}

NextRank ==
    \E q \in {Text.a}, ty \in {"decision", "note"}, c \in {Text.a, Text.x},
       older \in RankDates, newer \in RankDates, now \in RankNows :
        Rank(q, ty, c, older, newer, now)

SpecRank == Init /\ [][NextRank]_vars

(***************************************************************************)
(* SpecConcurrent: invocations of storeMemory and clearMemory by separate  *)
(* processes on one store, their statements interleaved.                   *)
(***************************************************************************)
NextConcurrent ==
    \/ InitProject(NoDb, Cwd, FALSE, 0)
    \/ /\ Len(procs) < MaxInvocations
       /\ \/ Begin("storeMemory", Cwd, Mem("decision", Text.a, <<>>, 100))
          \/ Begin("clearMemory", Cwd, NoMemory)
    \/ \E i \in DOMAIN procs : Connect(i)
    \/ \E i \in DOMAIN procs, busy \in BOOLEAN : Step(i, busy)

SpecConcurrent == Init /\ [][NextConcurrent]_vars

(***************************************************************************)
(* SpecGate: gated commands of the three CLIs, run one after the other,    *)
(* with and without a license and with and without quota left.             *)
(***************************************************************************)
NextGate ==
    \/ last.op # "call" /\ InitProject(NoDb, Cwd, FALSE, 0)
    \/ /\ Len(procs) < MaxCommands
       /\ \E cli \in CLIs, op \in GatedOperations, licensed \in BOOLEAN, quota \in BOOLEAN :
              Launch(cli, op, licensed, quota)
    \/ \E i \in DOMAIN procs : Check(i)
    \/ \E i \in DOMAIN procs : CallCore(i)
    \/ \E i \in DOMAIN procs : Core(i)
    \/ \E i \in DOMAIN procs : Finish(i)

SpecGate == Init /\ [][NextGate]_vars

(***************************************************************************)
(* SpecUsage: concurrent validateUsage requests on the license of one      *)
(* test-tier purchase, over the turn of a month.                           *)
(***************************************************************************)
UsageEmails == {"u", "v"}

NextUsage ==
    \/ Len(cloud.sessions) < MaxLicenses /\ CreateCheckout("u", "test")
    \/ \E s \in DOMAIN cloud.sessions : CompleteCheckout(s)
    \/ \E s \in DOMAIN cloud.sessions :
           cloud.sessions[s].deliveries < 1 /\ StripeWebhook(s)
    \/ cloud.month < MaxMonths /\ NewMonth
    \/ /\ Len(procs) < MaxRequests
       /\ \E key \in 1..MaxLicenses, email \in UsageEmails :
              ValidateUsageRequest(key, "export", email)
    \/ \E i \in DOMAIN procs : ValidateUsageGet(i)
    \/ \E i \in DOMAIN procs : ValidateUsageReset(i)
    \/ \E i \in DOMAIN procs : ValidateUsageIncrement(i)

SpecUsage == Init /\ [][NextUsage]_vars

(***************************************************************************)
(* SpecBilling: checkouts of the early adopter tier and the deliveries of  *)
(* their payment events, each event delivered once or more.                *)
(***************************************************************************)
NextBilling ==
    \/ InitializeDatabase
    \/ /\ Len(cloud.sessions) < EarlyAdopterLimit + 1
       /\ \E tier \in {"early_adopter", "standard"} : CreateCheckout("u", tier)
    \/ \E s \in DOMAIN cloud.sessions : CompleteCheckout(s)
    \/ \E s \in DOMAIN cloud.sessions :
           cloud.sessions[s].deliveries < MaxDeliveries /\ StripeWebhook(s)

SpecBilling == Init /\ [][NextBilling]_vars

(***************************************************************************)
(* Vocabulary of the properties.                                           *)
(***************************************************************************)
IsSearch == last.op \in {"search", "recall"} /\ last.result = "ok"

Ids(rows) == {rows[i].id : i \in DOMAIN rows}

Range(seq) == {seq[i] : i \in DOMAIN seq}

\* The memories of the searched store, as Memory values.
Stored == {ToMemory(r) : r \in Range(fs[last.path].memories)}

\* The filters of the last search, read as the specification states them.
PassesFilters(m) ==
    /\ (last.type # "" => m.type = last.type)
    /\ (last.since # <<>> => m.timestamp >= last.since[1])

\* The candidates of the last search: what its WHERE clause selects.
Candidates ==
    {ToMemory(r) : r \in {x \in Range(fs[last.path].memories) :
                             Matches(x, last.query, last.type, last.since)}}

IsAlnum(c) ==
    \/ c >= Ch.d0 /\ c <= Ch.d9
    \/ c >= 65 /\ c <= 90
    \/ c >= 97 /\ c <= 122
    \/ c >= 192 /\ c <= 255 /\ c # 215 /\ c # 247

\* The tokens of a text: its maximal runs of letters and digits.
Tokens(text) ==
    {SubSeq(text, i, j) : <<i, j>> \in
        {ij \in (1..Len(text)) \X (1..Len(text)) :
            /\ ij[1] <= ij[2]
            /\ \A k \in ij[1]..ij[2] : IsAlnum(text[k])
            /\ (ij[1] = 1 \/ ~IsAlnum(text[ij[1] - 1]))
            /\ (ij[2] = Len(text) \/ ~IsAlnum(text[ij[2] + 1]))}}

\* content + context, case-folded.
IndexedText(m) == JsToLowerCase(m.content) \o <<Ch.sp>> \o JsToLowerCase(m.context)

NewestFirst(rows) ==
    \A i, j \in DOMAIN rows : i < j => rows[i].timestamp >= rows[j].timestamp

Nows == {105, 120}

(***************************************************************************)
(* Properties.                                                             *)
(***************************************************************************)

\* C1: every memory a search returns has the type asked for, when a type is
\* given, and a creation timestamp not before `since`, when a since is given.
C1_FilterConjunction ==
    IsSearch =>
        \A i \in DOMAIN last.rows :
            /\ (last.type # "" => last.rows[i].type = last.type)
            /\ (last.since # <<>> => last.rows[i].timestamp >= last.since[1])

\* C1 witness: a search with a query, a type and a since returned a memory while
\* the store held one of another type and one older than since.
C1_Witness ==
    /\ IsSearch
    /\ last.query # <<>> /\ last.type # "" /\ last.since # <<>>
    /\ last.rows # <<>>
    /\ \E m \in Stored : m.type # last.type
    /\ \E m \in Stored : m.timestamp < last.since[1]

\* C2: a search with a query lists its results by descending relevance score,
\* and results of equal score newest first.
C2_RankedByRelevance ==
    (IsSearch /\ last.query # <<>>) =>
        \A now \in Nows : \A i, j \in DOMAIN last.rows :
            i < j =>
                LET si == CalculateRelevance(last.query, last.rows[i], now)
                    sj == CalculateRelevance(last.query, last.rows[j], now)
                IN  /\ si >= sj
                    /\ (si = sj => last.rows[i].timestamp >= last.rows[j].timestamp)

\* C3: initProject(path, force = true) on an initialized path succeeds and leaves
\* no earlier memory, file or pattern, one project row and a fresh init Activity.
C3_ForceReinitializes ==
    [][ (last'.op = "init" /\ last'.force /\ ProjectPathTaken(fs[last'.path], last'.path)) =>
            LET old == fs[last'.path]
                new == fs'[last'.path]
            IN  /\ last'.result = "ok"
                /\ Ids(old.memories) \cap Ids(new.memories) = {}
                /\ Range(old.files) \cap Range(new.files) = {}
                /\ Range(old.patterns) \cap Range(new.patterns) = {}
                /\ Cardinality({i \in DOMAIN new.projects :
                                   new.projects[i].path = last'.path}) = 1
                /\ new.activities # <<>>
                /\ new.activities[Len(new.activities)].type = "init"
                /\ new.activities[Len(new.activities)].id > old.actSeq ]_vars

\* C4: initProject(path, force = false) on a path whose store file exists fails
\* with AlreadyInitialized and changes nothing of the store or the sidecar.
C4_SecondInitRejected ==
    [][ (last'.op = "init" /\ ~last'.force /\ fs[last'.path].dbFile) =>
            /\ last'.result = "AlreadyInitialized"
            /\ fs' = fs ]_vars

\* C4 witness: an init was rejected on a store that holds memories.
C4_Witness ==
    /\ last.op = "init" /\ last.result = "AlreadyInitialized"
    /\ fs[last.path].memories # <<>>
    /\ fs[last.path].config # 0

\* C5 as claimed: clearMemory keeps every earlier Activity row and appends one
\* clear row after them.
C5_ClearKeepsActivities ==
    [][ (last'.op = "clear" /\ last'.result = "ok") =>
            LET old == fs[last'.path].activities
                new == fs'[last'.path].activities
            IN  /\ Len(new) = Len(old) + 1
                /\ SubSeq(new, 1, Len(old)) = old
                /\ new[Len(new)].type = "clear" ]_vars

\* C5 as amended: clearMemory deletes every earlier Activity row; afterwards the
\* log holds exactly one row, of type clear, with an id above every earlier id.
C5_ClearResetsActivities ==
    [][ (last'.op = "clear" /\ last'.result = "ok") =>
            LET old == fs[last'.path].activities
                new == fs'[last'.path].activities
            IN  /\ Len(new) = 1
                /\ new[1].type = "clear"
                /\ \A i \in DOMAIN old : old[i].id < new[1].id ]_vars

\* C5 witness: a clear succeeded on a store whose log already held three rows.
C5_Witness ==
    /\ last.op = "clear" /\ last.result = "ok"
    /\ Len(fs[last.path].activities) = 1
    /\ fs[last.path].activities[1].id >= 4

\* C6 as claimed: after clearMemory the projects, files, patterns and memories
\* tables are all empty.
C6_ClearEmptiesAllFour ==
    (last.op = "clear" /\ last.result = "ok") =>
        /\ fs[last.path].projects = <<>>
        /\ fs[last.path].files = <<>>
        /\ fs[last.path].patterns = <<>>
        /\ fs[last.path].memories = <<>>

\* C6 as amended: after clearMemory the files, patterns and memories tables are
\* empty and the projects table is as it was before the call.
C6_ClearEmptiesThreeKeepsProject ==
    [][ (last'.op = "clear" /\ last'.result = "ok") =>
            /\ fs'[last'.path].files = <<>>
            /\ fs'[last'.path].patterns = <<>>
            /\ fs'[last'.path].memories = <<>>
            /\ fs'[last'.path].projects = fs[last'.path].projects ]_vars

\* C6 witness: a clear succeeded after an init, a stored memory and a scan.
C6_Witness ==
    /\ last.op = "clear" /\ last.result = "ok"
    /\ Len(fs[last.path].projects) = 1
    /\ fs[last.path].projects[1].total_files > 0
    /\ nextId > 2
    /\ fs[last.path].memories = <<>>

\* C7: with a limit L >= 1 and n candidates a search returns min(n, L) memories,
\* the first min(n, L) of the unlimited result; they are listed newest first and
\* no candidate left out is newer than one returned.
C7_LimitTakesPrefix ==
    (IsSearch /\ last.limit # <<>> /\ last.limit[1] >= 1) =>
        LET n == Cardinality(Candidates)
            k == Min(n, last.limit[1])
            full == SelectMemories(fs[last.path], last.query, last.type, last.since, <<>>)
        IN  /\ Len(last.rows) = k
            /\ last.rows = SubSeq(full, 1, k)
            /\ NewestFirst(last.rows)
            /\ \A m \in Candidates : \A i \in DOMAIN last.rows :
                   m.id \notin Ids(last.rows) => m.timestamp <= last.rows[i].timestamp

\* C7 witness: a search without a query, limited to 2, returned 2 of 3 memories.
C7_Witness ==
    /\ IsSearch /\ last.query = <<>> /\ last.limit = <<2>>
    /\ Cardinality(Candidates) = 3
    /\ Len(last.rows) = 2

\* C8 as claimed: searchMemories called without a limit returns at most 10.
C8_EngineDefaultsToTen ==
    (last.op = "search" /\ last.result = "ok" /\ last.limit = <<>>) =>
        Len(last.rows) <= DefaultLimit

\* C8 as amended: searchMemories called without a limit returns every candidate;
\* the recall command, run without --limit, passes 10 and returns at most 10.
C8_DefaultIsTheCommands ==
    /\ (last.op = "search" /\ last.result = "ok" /\ last.limit = <<>>) =>
           Len(last.rows) = Cardinality(Candidates)
    /\ (last.op = "recall" /\ last.result = "ok" /\ last.option = DefaultLimitOption) =>
           /\ last.limit = <<DefaultLimit>>
           /\ Len(last.rows) = Min(Cardinality(Candidates), DefaultLimit)

\* C8 witness: a search without a limit returned more than 10 memories.
C8_Witness ==
    /\ last.op = "search" /\ last.result = "ok" /\ last.limit = <<>>
    /\ Len(last.rows) > DefaultLimit

\* C9: an unlimited search with a query of several tokens returns exactly the
\* memories that pass the filters and whose case-folded content+context holds
\* every token of the query.
C9_ConjunctiveTokenMatch ==
    (IsSearch /\ last.limit = <<>> /\ Cardinality(Tokens(last.query)) >= 2) =>
        Ids(last.rows) =
            {m.id : m \in {x \in Stored :
                /\ PassesFilters(x)
                /\ \A tok \in Tokens(JsToLowerCase(last.query)) :
                       Includes(IndexedText(x), tok)}}

\* C10: an unlimited, unfiltered search for a token of the content or context of
\* the memory stored last, in any letter case, returns that memory; and a search
\* returns only memories the table holds (none deleted by a clear).
C10_IndexConsistent ==
    (IsSearch /\ last.limit = <<>> /\ last.type = "" /\ last.since = <<>>) =>
        LET mems == fs[last.path].memories
        IN  /\ Ids(last.rows) \subseteq Ids(mems)
            /\ (mems # <<>> /\ last.query # <<>>) =>
                   LET m == ToMemory(mems[Len(mems)])
                   IN  (\E tok \in Tokens(m.content) \cup Tokens(m.context) :
                            JsToLowerCase(tok) = JsToLowerCase(last.query))
                       => m.id \in Ids(last.rows)

\* C11: no entity is shared across projects.  A successful storeMemory changes
\* the memories of no store but that of its projectPath, and a successful
\* searchMemories returns only rows of the store of its projectPath: the
\* memories its rows carry are those of that store; so for exportMemory.
C11_NoSharingAcrossProjects ==
    [][ /\ (last'.op = "store" /\ last'.result = "ok") =>
            \A q \in Paths \ {last'.path} : fs'[q].memories = fs[q].memories
        /\ (last'.op = "search" /\ last'.result = "ok") =>
            Ids(last'.rows) \subseteq Ids(fs'[last'.path].memories)
        /\ (last'.op = "export" /\ last'.result = "ok") =>
            Ids(last'.export) \subseteq Ids(fs'[last'.path].memories) ]_vars

\* C12: storing a memory whose content is empty is rejected with InvalidMemory,
\* and the rejected call adds no memory row and no Activity row (stated for an
\* initialized store, where nothing else can reject the call).
C12_EmptyContentRejected ==
    [][ (last'.op = "store" /\ last'.mem.content = <<>> /\ fs[last'.path].schema) =>
            /\ last'.result = "InvalidMemory"
            /\ fs'[last'.path].memories = fs[last'.path].memories
            /\ fs'[last'.path].activities = fs[last'.path].activities ]_vars

\* C13: in every store the ids of the memories are pairwise distinct, and a
\* successful storeMemory has returned the id under which its memory, the newest
\* row of the store, is stored.
C13_DistinctIdsReturned ==
    /\ \A p \in Paths : \A i, j \in DOMAIN fs[p].memories :
           i # j => fs[p].memories[i].id # fs[p].memories[j].id
    /\ (last.op = "store" /\ last.result = "ok") =>
           LET ms == fs[last.path].memories
           IN  /\ ms # <<>>
               /\ ms[Len(ms)].id = last.id
               /\ ms[Len(ms)].type = last.mem.type
               /\ ms[Len(ms)].content = last.mem.content
               /\ \A i \in 1..(Len(ms) - 1) : ms[i].id # last.id

\* Three memories stored, the last by the call just made.
C13_Witness ==
    /\ last.op = "store" /\ last.result = "ok"
    /\ Len(fs[last.path].memories) = 3
    /\ fs[last.path].memories[3].id = last.id

\* C14: searchMemories is a pure read.  Whatever the state and the arguments, the
\* rows of the five tables of every store are the same before and after the call,
\* and no memory.db exists after it that did not exist before.
C14_SearchIsPureRead ==
    [][ last'.op \in {"search", "recall"} =>
            \A p \in Paths :
                /\ fs'[p].projects = fs[p].projects
                /\ fs'[p].files = fs[p].files
                /\ fs'[p].patterns = fs[p].patterns
                /\ fs'[p].memories = fs[p].memories
                /\ fs'[p].activities = fs[p].activities
                /\ fs'[p].dbFile = fs[p].dbFile ]_vars

\* C15: searchMemories, getProjectStatus and exportMemory on a path that has no
\* memory.db fail, and leave the path without one, so that initProject without
\* force is not refused afterwards.  (The failure is NotFound in the taxonomy;
\* the engine's own cannot-open error is accepted for it here.)
C15_QueriesLeaveUninitialized ==
    [][ (last'.op \in {"search", "status", "export"} /\ ~fs[last'.path].dbFile) =>
            /\ last'.result \in {"NotFound", "StoreUnavailable"}
            /\ ~fs'[last'.path].dbFile ]_vars

\* C16: a successful storeProjectAnalysis of the batch the call before it
\* ingested (same file paths, same pattern ids) leaves the row counts of the
\* files and patterns tables as that first ingestion left them.
C16_SameBatchKeepsCounts ==
    [][ (last'.op = "scan" /\ last'.result = "ok" /\ last'.again /\ ~last'.scanned) =>
            /\ Len(fs'[last'.path].files) = Len(fs[last'.path].files)
            /\ Len(fs'[last'.path].patterns) = Len(fs[last'.path].patterns) ]_vars

\* A batch of two files ingested a second time, over a store that holds a pattern.
C16_Witness ==
    /\ last.op = "scan" /\ last.result = "ok" /\ last.again /\ ~last.scanned
    /\ Len(last.analysis.files) = 2
    /\ Len(fs[last.path].files) = 2
    /\ Len(fs[last.path].patterns) = 1

\* C17: patterns are replaced wholesale on re-scan.  After the scan command has
\* run a second time on the unchanged project, the patterns table holds exactly
\* the patterns of that scan, as many rows as after the first.
C17_RescanReplacesPatterns ==
    [][ (last'.op = "scan" /\ last'.result = "ok" /\ last'.again /\ last'.scanned) =>
            /\ Range(fs'[last'.path].patterns) = Range(last'.analysis.patterns)
            /\ Len(fs'[last'.path].patterns) = Len(fs[last'.path].patterns) ]_vars

\* C18: when the write of the k-th record of the batch fails, the files and
\* patterns tables hold what the first k-1 records make of them, the projects
\* table and the Activity log are as before, and the error reports k-1.
C18_PartialFailureReportsCount ==
    [][ (last'.op = "scan" /\ last'.failAt \in
             1..(Len(last'.analysis.files) + Len(last'.analysis.patterns))) =>
            LET old == fs[last'.path]
                new == fs'[last'.path]
                a == last'.analysis
                k == last'.failAt
                nf == Len(a.files)
            IN  /\ last'.result = "StorageError"
                /\ new.files = Upsert(old.files, SubSeq(a.files, 1, Min(k - 1, nf)), "path")
                /\ new.patterns =
                       Upsert(old.patterns, SubSeq(a.patterns, 1, Max(k - 1 - nf, 0)), "id")
                /\ new.projects = old.projects
                /\ new.activities = old.activities
                /\ last'.reported = <<k - 1>> ]_vars

\* JSON.parse of a string of the export: up to the closing quote, an escaped
\* character standing for itself; null is read as NULL.
RECURSIVE JsonReadString(_)
JsonReadString(s) ==
    IF s = <<>> \/ Head(s) = Ch.quote THEN <<>>
    ELSE IF Head(s) = Ch.bslash /\ Len(s) > 1
         THEN <<s[2]>> \o JsonReadString(SubSeq(s, 3, Len(s)))
    ELSE <<Head(s)>> \o JsonReadString(Tail(s))

JsonParse(text) == IF text = JsonNull THEN <<>> ELSE JsonReadString(Tail(text))

\* C19: the JSON export of a store of N memories, parsed back, has exactly N
\* memory entries, one for each stored memory and none twice, each with the
\* content, type and context of the stored memory.
C19_ExportRoundTrip ==
    (last.op = "export" /\ last.result = "ok") =>
        LET ms == fs[last.path].memories
            ex == last.export
        IN  /\ Len(ex) = Len(ms)
            /\ \A i \in DOMAIN ms : \E j \in DOMAIN ex :
                   /\ ex[j].id = ms[i].id
                   /\ ex[j].type = ms[i].type
                   /\ JsonParse(ex[j].content) = ms[i].content
                   /\ JsonParse(ex[j].context) = ms[i].context
                   /\ \A k \in DOMAIN ex : ex[k].id = ms[i].id => k = j

\* An export of more memories than the recall default, some with characters
\* JSON escapes and a context, some with none.
C19_Witness ==
    /\ last.op = "export" /\ last.result = "ok"
    /\ Len(last.export) = DefaultLimit + BulkExtra
    /\ \E i \in DOMAIN last.export : last.export[i].context = JsonNull
    /\ \E i \in DOMAIN fs[last.path].memories :
           fs[last.path].memories[i].content = Text.quoted

\* The Activity type each mutating operation logs.
ActivityType(op) ==
    CASE op = "init" -> "init"
      [] op = "scan" -> "scan"
      [] op = "store" -> "memory"
      [] OTHER -> ""

\* C20: the Activity log is append-only under every operation but clear.  No
\* such operation changes or removes a row; a successful initProject,
\* storeProjectAnalysis or storeMemory appends exactly one row, of type init,
\* scan or memory, whose id is greater than every id in the log; no other
\* operation adds a row.
C20_ActivityLogAppendOnly ==
    [][ last'.op # "clear" =>
            \A p \in Paths :
                LET old == fs[p].activities
                    new == fs'[p].activities
                    logs == /\ p = last'.path
                            /\ last'.op \in {"init", "scan", "store"}
                            /\ last'.result = "ok"
                IN  /\ Len(new) >= Len(old)
                    /\ SubSeq(new, 1, Len(old)) = old
                    /\ Len(new) = Len(old) + (IF logs THEN 1 ELSE 0)
                    /\ logs => /\ new[Len(new)].type = ActivityType(last'.op)
                                /\ \A i \in DOMAIN old : new[Len(new)].id > old[i].id ]_vars

\* A store cleared and written again: a memory and a scan logged after the clear.
C20_Witness ==
    /\ last.op = "scan" /\ last.result = "ok"
    /\ Len(fs[last.path].activities) = 3
    /\ fs[last.path].activities[1].type = "clear"
    /\ fs[last.path].activities[2].type = "memory"
    /\ fs[last.path].activities[3].type = "scan"

\* C21: a stored memory is immutable and never individually deleted.  A
\* storeMemory, storeProjectAnalysis, searchMemories, exportMemory or
\* getProjectStatus call leaves every memory row of every store as it was, the
\* row a storeMemory adds carries the type, content, context and timestamp it
\* was given, and every memory a search or an export returns shows the type,
\* content, context and creation timestamp of the stored row of its id.
C21_MemoryImmutable ==
    [][ /\ last'.op \in {"store", "scan", "search", "recall", "export", "status"} =>
            \A p \in Paths :
                /\ Len(fs'[p].memories) >= Len(fs[p].memories)
                /\ SubSeq(fs'[p].memories, 1, Len(fs[p].memories)) = fs[p].memories
        /\ (last'.op = "store" /\ last'.result = "ok") =>
            LET ms == fs'[last'.path].memories
                r == ms[Len(ms)]
            IN  /\ r.type = last'.mem.type
                /\ r.content = last'.mem.content
                /\ r.context = last'.mem.context
                /\ ParseDate(r.created_at) = last'.mem.timestamp
        /\ (last'.op \in {"search", "recall"} /\ last'.result = "ok") =>
            \A k \in DOMAIN last'.rows : \E i \in DOMAIN fs'[last'.path].memories :
                LET r == fs'[last'.path].memories[i]
                    m == last'.rows[k]
                IN  /\ m.id = r.id /\ m.type = r.type /\ m.content = r.content
                    /\ m.context = r.context
                    /\ m.timestamp = ParseDate(r.created_at)
        /\ (last'.op = "export" /\ last'.result = "ok") =>
            \A k \in DOMAIN last'.export : \E i \in DOMAIN fs'[last'.path].memories :
                LET r == fs'[last'.path].memories[i]
                    m == last'.export[k]
                IN  /\ m.id = r.id /\ m.type = r.type
                    /\ JsonParse(m.content) = r.content
                    /\ JsonParse(m.context) = r.context
                    /\ JsonParse(m.timestamp) = r.created_at ]_vars

\* A memory with a context, stored first, returned by a search made after a
\* later store and a scan.
C21_Witness ==
    /\ last.op \in {"search", "recall"} /\ last.result = "ok"
    /\ Len(fs[last.path].memories) = 2
    /\ Len(fs[last.path].files) > 0
    /\ fs[last.path].memories[1].context # <<>>
    /\ \E k \in DOMAIN last.rows : last.rows[k].id = fs[last.path].memories[1].id

\* Age in days of a ranked memory at the time of the ranking.
Age(m) == last.now - m.timestamp

\* C26 as claimed: the recency term is never negative, at most 5, zero from 50
\* days of age on and non-increasing with age, and of two memories identical
\* except creation time the newer scores at least what the older scores.
C26_RecencyBounded ==
    last.op = "rank" =>
        /\ \A i \in 1..2 :
               /\ last.scores[i].recency >= 0
               /\ last.scores[i].recency <= 50
               /\ (Age(last.rows[i]) >= 50 => last.scores[i].recency = 0)
        /\ last.scores[2].recency >= last.scores[1].recency
        /\ last.scores[2].relevance >= last.scores[1].relevance

\* C26 as amended: the bound of 5 holds for a memory not dated after the time
\* of the ranking; a memory dated d days ahead has the term 5 + d / 10.
C26_RecencyBoundedFromNow ==
    last.op = "rank" =>
        /\ \A i \in 1..2 :
               /\ last.scores[i].recency >= 0
               /\ (Age(last.rows[i]) >= 0 => last.scores[i].recency <= 50)
               /\ (Age(last.rows[i]) < 0 => last.scores[i].recency = 50 - Age(last.rows[i]))
               /\ (Age(last.rows[i]) >= 50 => last.scores[i].recency = 0)
        /\ last.scores[2].recency >= last.scores[1].recency
        /\ last.scores[2].relevance >= last.scores[1].relevance

\* A memory older than 50 days ranked with one dated after the ranking.
C26_Witness ==
    /\ last.op = "rank"
    /\ Age(last.rows[1]) > 50 /\ last.scores[1].recency = 0
    /\ Age(last.rows[2]) < 0 /\ last.scores[2].recency > 50

\* The query occurs, whatever the case of its letters, in the content or the
\* context of the memory row.
Mentions(row, query) ==
    \/ Includes(JsToLowerCase(row.content), JsToLowerCase(query))
    \/ Includes(JsToLowerCase(row.context), JsToLowerCase(query))

ProjectRows(s, p) == {i \in DOMAIN s.projects : s.projects[i].path = p}

\* C28: 'initialized' is one notion in every reachable state, those left by a
\* failed or stopped operation included.  Whenever initProject(path) without
\* force would be rejected as already initialized, the store of the path holds
\* exactly one project row for it and getProjectStatus(path) succeeds.
C28_InitializedIsConsistent ==
    \A p \in Paths :
        AlreadyInitialized(FALSE, fs[p].dbFile) =>
            /\ Cardinality(ProjectRows(fs[p], p)) = 1
            /\ GetStatus(NoDb, p, fs).result = "ok"

\* C29: storeMemory is all-or-nothing.  A call that fails leaves the memories
\* table as it was; a call that succeeds has added its memory row and, after
\* it, its memory Activity row.
C29_StoreAllOrNothing ==
    [][ last'.op = "store" =>
            LET old == fs[last'.path]
                new == fs'[last'.path]
            IN  IF last'.result = "ok"
                THEN /\ new.memories = Append(old.memories, new.memories[Len(new.memories)])
                     /\ new.memories[Len(new.memories)].id = last'.id
                     /\ new.activities =
                            Append(old.activities, new.activities[Len(new.activities)])
                     /\ new.activities[Len(new.activities)].type = "memory"
                ELSE new.memories = old.memories ]_vars

\* C22: when invocations write to one store at the same time, an invocation of
\* storeMemory that returns normally has its memory row in the store at that
\* moment; otherwise it has thrown a StorageError (or found no store).
C22_NoWriteSilentlyDropped ==
    [][\A i \in DOMAIN procs :
          (/\ procs[i].op = "storeMemory"
           /\ Running(procs[i])
           /\ procs'[i].result = "ok")
          => \E k \in DOMAIN fs'[procs[i].path].memories :
                 fs'[procs[i].path].memories[k].id = procs[i].id]_vars

\* C23: a gated command calls the core only when the license check and the
\* usage-quota check of its invocation succeed; when one of them fails the core
\* is never called and the process exits with a non-zero code.
C23_CoreOnlyAfterCheck ==
    \A i \in DOMAIN procs :
        IsCommand(procs[i]) =>
            /\ procs[i].called => procs[i].licensed /\ procs[i].quota
            /\ (Exited(procs[i]) /\ ~(procs[i].licensed /\ procs[i].quota))
               => procs[i].exit # <<0>> /\ ~procs[i].called

\* C24: for every license and calendar month, the validateUsage requests of an
\* operation answered with success are no more than the limit of the operation,
\* and the usage.operations stored on the license is never over that limit.
C24_UsageNeverExceedsLimit ==
    \A k \in DOMAIN cloud.licenses :
        LET license == cloud.licenses[k]
            limit == OperationLimit(license.usage.limits, "export")
            granted(m) == {i \in DOMAIN procs :
                              /\ procs[i].licenseKey = license.id
                              /\ procs[i].operation = "export"
                              /\ procs[i].status = 200
                              /\ procs[i].currentMonth = m}
        IN  /\ \A m \in 1..cloud.month : Cardinality(granted(m)) <= limit
            /\ license.usage.operations <= limit

\* C25: the early adopter licenses counted as sold never exceed the limit.
C25_EarlyAdopterCap ==
    cloud.stats # <<>> =>
        cloud.stats[1].earlyAdoptersSold <= cloud.stats[1].earlyAdopterLimit

\* C30: however often the checkout.session.completed event of a session is
\* delivered, at most one license exists for the session and earlyAdoptersSold
\* counts the session at most once.
C30_WebhookIdempotent ==
    /\ \A s \in DOMAIN cloud.sessions :
           Cardinality({k \in DOMAIN cloud.licenses :
                           cloud.licenses[k].stripeSubscriptionId = cloud.sessions[s].id}) <= 1
    /\ StatsOrDefault(cloud).earlyAdoptersSold
           <= Cardinality({s \in DOMAIN cloud.sessions :
                              /\ cloud.sessions[s].completed
                              /\ cloud.sessions[s].tier = "early_adopter"})

====
